---- MODULE Spec2Model ----
(***************************************************************************)
(* min-desk: the browser's navigation controller (src/src/browser.rs).     *)
(*                                                                         *)
(* Browser::update is the single state-owning handler: the UI loop feeds   *)
(* it one Message at a time and it returns a Command, which is either      *)
(* Command::none() or Command::perform(fetch_page(url), LoadComplete).     *)
(* A performed fetch runs on the executor and later comes back as a        *)
(* LoadComplete(result) message; several may be in flight and they may     *)
(* resolve in any order.                                                   *)
(*                                                                         *)
(* Strings that the code inspects (URLs: starts_with, format!) are         *)
(* sequences of one-character strings; page texts and error messages,      *)
(* which the controller only stores, are atomic strings.                   *)
(* Option<String> is <<>> (None) or <<s>> (Some(s)).                       *)
(* A Command is <<>> (Command::none()) or <<url>> (one fetch performed).   *)
(***************************************************************************)
EXTENDS Integers, Sequences, FiniteSets, TLC

\* ------------------------------------------------------------ bounds

\* Longest history the model lets Navigate build.
MaxHistory == 3

\* Most fetches in flight at once.
MaxPending == 2

\* Most package operations in flight at once.
MaxOperations == 2

\* Most entries in the file system.
MaxEntries == 4

\* Activations of extract_text_from_node the stack of a thread holds.
StackLimit == 5

\* ----------------------------------------------------------- strings

HttpPrefix == <<"h", "t", "t", "p", ":", "/", "/">>

HttpsPrefix == <<"h", "t", "t", "p", "s", ":", "/", "/">>

\* str::starts_with
StartsWith(s, p) == Len(s) >= Len(p) /\ SubSeq(s, 1, Len(p)) = p

\* The URL texts a user submits: a bare host, and the same host with either
\* scheme.
Inputs ==
    { <<"a">>,
      HttpPrefix \o <<"a">>,
      HttpsPrefix \o <<"a">> }

\* The texts a user types into the input box without submitting.
TypedTexts == { <<"a">> }

\* The homepages a configuration may hold (Browser::new stores it as it is).
Homepages == { HttpsPrefix \o <<"h">> }

Configs == [homepage : Homepages, minimal_mode : BOOLEAN]

WelcomeText == "Welcome to MinDesk Browser\n\nEnter a URL above to start browsing."

\* What fetch_page can resolve to: Ok(text) or Err(message).
Ok(t) == [ok |-> TRUE, val |-> t]

Err(e) == [ok |-> FALSE, val |-> e]

Results == { Ok("T1"), Err("E1") }

\* ------------------------------------------------------------ state

VARIABLES
    browser,    \* the Browser struct
    pending,    \* fetches performed and not yet resolved, in issue order
    shown,      \* which fetch the stored outcome (content / error) came from
    last,       \* the last message handled, the state before it, its Command
    fetch,      \* one run of fetch_page: its position, its inputs, its outcome
    walk,       \* one run of extract_text_from_html: call stack and buffer
    pm,         \* the PackageManager struct, its operations in flight, the system
    fm,         \* the FileManager struct and the file system
    current_view    \* MinDesk::current_view

vars == <<browser, pending, shown, last, fetch, walk, pm, fm, current_view>>

browserVars == <<browser, pending, shown, last>>

None == <<>>

Some(x) == <<x>>

CommandNone == <<>>

CommandPerform(url) == <<url>>

\* New that leaves the input box empty.
NewEmptyInput(config) ==
    [ config        |-> config,
      current_url   |-> config.homepage,
      url_input     |-> <<>>,
      content       |-> WelcomeText,
      loading       |-> FALSE,
      error         |-> None,
      history       |-> <<config.homepage>>,
      history_index |-> 0 ]

\* Browser::new
New(config) ==
    [ config        |-> config,
      current_url   |-> config.homepage,
      url_input     |-> config.homepage,
      content       |-> WelcomeText,
      loading       |-> FALSE,
      error         |-> None,
      history       |-> <<config.homepage>>,
      history_index |-> 0 ]

\* ------------------------------------------------- Browser::update arms

\* Normalize that knows the http:// prefix only.
NormalizeHttpOnly(url) ==
    IF ~StartsWith(url, HttpPrefix)
    THEN HttpsPrefix \o url
    ELSE url

\* Normalize with || in place of &&: no text starts with both prefixes.
NormalizeEitherMissing(url) ==
    IF ~StartsWith(url, HttpPrefix) \/ ~StartsWith(url, HttpsPrefix)
    THEN HttpsPrefix \o url
    ELSE url

\* let url = if !url.starts_with("http://") && !url.starts_with("https://") ...
Normalize(url) ==
    IF ~StartsWith(url, HttpPrefix) /\ ~StartsWith(url, HttpsPrefix)
    THEN HttpsPrefix \o url
    ELSE url

\* truncate that also drops the oldest element.
TruncateDropsFirst(v, len) ==
    SubSeq(v, 2, IF len < Len(v) THEN len ELSE Len(v))

\* Vec::truncate(len): keeps the first len elements.
Truncate(v, len) == IF len < Len(v) THEN SubSeq(v, 1, len) ELSE v

\* self.history[i] with a 0-based index.
At(v, i) == v[i + 1]

\* UpdateUrl that also stores the typed text as the current URL.
UpdateUrlSetsCurrentUrl(b, url) ==
    [ browser |-> [b EXCEPT !.url_input = url, !.current_url = url],
      command |-> CommandNone ]

\* UpdateUrl that loads the typed text at once.
UpdateUrlFetches(b, url) ==
    [ browser |-> [b EXCEPT !.url_input = url, !.loading = TRUE],
      command |-> CommandPerform(url) ]

UpdateUrl(b, url) ==
    [ browser |-> [b EXCEPT !.url_input = url],
      command |-> CommandNone ]

\* PushHistory without the truncation.
PushHistoryNoTruncate(history, history_index, url) == Append(history, url)

\* "Update history": the forward entries are dropped, the URL is pushed.
PushHistory(history, history_index, url) ==
    Append(IF history_index < Len(history) - 1
           THEN Truncate(history, history_index + 1)
           ELSE history,
           url)

\* IndexAfterPush without the - 1.
IndexAfterPushOffByOne(history) == Len(history)

\* self.history_index = self.history.len() - 1
IndexAfterPush(history) == Len(history) - 1

\* Navigate that is dropped while a page is loading.
NavigateIgnoredWhileLoading(b, input) ==
    LET url == Normalize(input)
        h   == PushHistory(b.history, b.history_index, url)
    IN  IF b.loading
        THEN [ browser |-> b, command |-> CommandNone ]
        ELSE [ browser |-> [b EXCEPT !.current_url   = url,
                                     !.url_input     = url,
                                     !.loading       = TRUE,
                                     !.error         = None,
                                     !.history       = h,
                                     !.history_index = IndexAfterPush(h)],
               command |-> CommandPerform(url) ]

Navigate(b, input) ==
    LET url == Normalize(input)
        h   == PushHistory(b.history, b.history_index, url)
    IN  [ browser |-> [b EXCEPT !.current_url   = url,
                                !.url_input     = url,
                                !.loading       = TRUE,
                                !.error         = None,
                                !.history       = h,
                                !.history_index = IndexAfterPush(h)],
          command |-> CommandPerform(url) ]

\* go_back that moves the index and leaves current_url behind.
GoBackKeepsCurrentUrl(b) ==
    IF b.history_index > 0
    THEN [ browser |-> [b EXCEPT !.history_index = b.history_index - 1,
                                 !.url_input     = At(b.history, b.history_index - 1),
                                 !.loading       = TRUE],
           command |-> CommandPerform(At(b.history, b.history_index - 1)) ]
    ELSE [ browser |-> b, command |-> CommandNone ]

\* GoBack whose else arm reloads the current page.
GoBackReloadsAtStart(b) ==
    IF b.history_index > 0
    THEN LET i   == b.history_index - 1
             url == At(b.history, i)
         IN  [ browser |-> [b EXCEPT !.history_index = i,
                                     !.current_url   = url,
                                     !.url_input     = url,
                                     !.loading       = TRUE],
               command |-> CommandPerform(url) ]
    ELSE [ browser |-> [b EXCEPT !.loading = TRUE],
           command |-> CommandPerform(b.current_url) ]

GoBack(b) ==
    IF b.history_index > 0
    THEN LET i   == b.history_index - 1
             url == At(b.history, i)
         IN  [ browser |-> [b EXCEPT !.history_index = i,
                                     !.current_url   = url,
                                     !.url_input     = url,
                                     !.loading       = TRUE],
               command |-> CommandPerform(url) ]
    ELSE [ browser |-> b, command |-> CommandNone ]

\* GoForward that reads the URL before it moves the index.
GoForwardStaleUrl(b) ==
    IF b.history_index < Len(b.history) - 1
    THEN LET i   == b.history_index + 1
             url == At(b.history, b.history_index)
         IN  [ browser |-> [b EXCEPT !.history_index = i,
                                     !.current_url   = url,
                                     !.url_input     = url,
                                     !.loading       = TRUE],
               command |-> CommandPerform(url) ]
    ELSE [ browser |-> b, command |-> CommandNone ]

GoForward(b) ==
    IF b.history_index < Len(b.history) - 1
    THEN LET i   == b.history_index + 1
             url == At(b.history, i)
         IN  [ browser |-> [b EXCEPT !.history_index = i,
                                     !.current_url   = url,
                                     !.url_input     = url,
                                     !.loading       = TRUE],
               command |-> CommandPerform(url) ]
    ELSE [ browser |-> b, command |-> CommandNone ]

\* Refresh that records the reload as a visit.
RefreshPushesHistory(b) ==
    [ browser |-> [b EXCEPT !.loading = TRUE, !.error = None,
                            !.history = Append(b.history, b.current_url)],
      command |-> CommandPerform(b.current_url) ]

\* Refresh that fetches the input-box text.
RefreshFetchesInput(b) ==
    [ browser |-> [b EXCEPT !.loading = TRUE, !.error = None],
      command |-> CommandPerform(b.url_input) ]

Refresh(b) ==
    [ browser |-> [b EXCEPT !.loading = TRUE, !.error = None],
      command |-> CommandPerform(b.current_url) ]

\* LoadComplete that stores the page text in minimal mode only.
LoadCompleteTextInMinimalModeOnly(b, result) ==
    [ browser |-> IF result.ok
                  THEN [b EXCEPT !.loading = FALSE,
                                 !.content = IF b.config.minimal_mode
                                             THEN result.val
                                             ELSE "",
                                 !.error   = None]
                  ELSE [b EXCEPT !.loading = FALSE,
                                 !.error   = Some(result.val),
                                 !.content = ""],
      command |-> CommandNone ]

\* LoadComplete that drops the last history entry when the fetch failed.
LoadCompleteErrPopsHistory(b, result) ==
    [ browser |-> IF result.ok
                  THEN [b EXCEPT !.loading = FALSE,
                                 !.content = result.val,
                                 !.error   = None]
                  ELSE LET h == IF Len(b.history) > 1
                                THEN SubSeq(b.history, 1, Len(b.history) - 1)
                                ELSE b.history
                       IN  [b EXCEPT !.loading       = FALSE,
                                     !.error         = Some(result.val),
                                     !.content       = "",
                                     !.history       = h,
                                     !.history_index =
                                         IF b.history_index > Len(h) - 1
                                         THEN Len(h) - 1
                                         ELSE b.history_index],
      command |-> CommandNone ]

\* LoadComplete whose Err arm leaves the text of the last page in place.
LoadCompleteErrKeepsContent(b, result) ==
    [ browser |-> IF result.ok
                  THEN [b EXCEPT !.loading = FALSE,
                                 !.content = result.val,
                                 !.error   = None]
                  ELSE [b EXCEPT !.loading = FALSE,
                                 !.error   = Some(result.val)],
      command |-> CommandNone ]

\* LoadComplete whose Err arm leaves the loading flag set.
LoadCompleteErrKeepsLoading(b, result) ==
    [ browser |-> IF result.ok
                  THEN [b EXCEPT !.loading = FALSE,
                                 !.content = result.val,
                                 !.error   = None]
                  ELSE [b EXCEPT !.error   = Some(result.val),
                                 !.content = ""],
      command |-> CommandNone ]

\* LoadComplete that fetches the page again after a failure.
LoadCompleteRetries(b, result) ==
    IF result.ok
    THEN [ browser |-> [b EXCEPT !.loading = FALSE,
                                 !.content = result.val,
                                 !.error   = None],
           command |-> CommandNone ]
    ELSE [ browser |-> [b EXCEPT !.error   = Some(result.val),
                                 !.content = ""],
           command |-> CommandPerform(b.current_url) ]

\* LoadComplete whose Ok arm leaves the stored error.
LoadCompleteKeepsError(b, result) ==
    [ browser |-> IF result.ok
                  THEN [b EXCEPT !.loading = FALSE,
                                 !.content = result.val]
                  ELSE [b EXCEPT !.loading = FALSE,
                                 !.error   = Some(result.val),
                                 !.content = ""],
      command |-> CommandNone ]

LoadComplete(b, result) ==
    [ browser |-> IF result.ok
                  THEN [b EXCEPT !.loading = FALSE,
                                 !.content = result.val,
                                 !.error   = None]
                  ELSE [b EXCEPT !.loading = FALSE,
                                 !.error   = Some(result.val),
                                 !.content = ""],
      command |-> CommandNone ]

Close(b) == [ browser |-> b, command |-> CommandNone ]

\* ------------------------------------------------------- observed status

\* The status the view derives from the flags (create_content): the loading
\* screen when loading, else the error screen when an error is stored, else
\* the stored text (the welcome text until a page has been stored).
Status(b) ==
    IF b.loading THEN [kind |-> "Loading", val |-> b.current_url]
    ELSE IF b.error # None THEN [kind |-> "Errored", val |-> b.error]
    ELSE IF b.content = WelcomeText THEN [kind |-> "Idle", val |-> <<>>]
    ELSE [kind |-> "Loaded", val |-> <<b.content>>]

\* ------------------------------------------------------------- messages

NoResult == [ok |-> FALSE, val |-> ""]

NoFetch == [url |-> <<>>, latest |-> FALSE]

Msg(type, url, result, from) ==
    [type |-> type, url |-> url, result |-> result, fetch |-> from]

\* ------------------------------------------------------------- actions

\* ------------------------------------------------------------ the shell

\* MinDesk::update: the view displayed after a message. The three forwarding
\* arms and Tick leave it alone.
ViewAfterForwardCloses(view, message) ==
    CASE message = "OpenFileManager"    -> "FileManager"
      [] message = "OpenPackageManager" -> "PackageManager"
      [] message = "OpenBrowser"        -> "Browser"
      [] message = "CloseApp"           -> "Desktop"
      [] message = "BrowserMessage"     -> "Desktop"
      [] OTHER                          -> view

ViewAfter(view, message) ==
    CASE message = "OpenFileManager"    -> "FileManager"
      [] message = "OpenPackageManager" -> "PackageManager"
      [] message = "OpenBrowser"        -> "Browser"
      [] message = "CloseApp"           -> "Desktop"
      [] OTHER                          -> view

\* Every fetch in flight stops being the most recently issued one.
Superseded(q) == [i \in 1..Len(q) |-> [q[i] EXCEPT !.latest = FALSE]]

\* A delivered fetch that stays in flight.
RemoveAtKeeps(q, i) == q

RemoveAt(q, i) == SubSeq(q, 1, i - 1) \o SubSeq(q, i + 1, Len(q))

\* The bounds of the model: the handler's result is taken only while the
\* fetches in flight and the history stay within them.
WithinBounds(r) ==
    /\ r.command # CommandNone => Len(pending) < MaxPending
    /\ Len(r.browser.history) <= MaxHistory

\* The runtime around update: the new state is stored and the Command's
\* fetch, if any, is spawned.
Dispatch(msg, r) ==
    /\ browser' = r.browser
    /\ pending' = IF r.command = CommandNone
                  THEN pending
                  ELSE Append(Superseded(pending),
                              [url |-> r.command[1], latest |-> TRUE])
    /\ shown' = IF r.command = CommandNone
                THEN shown
                ELSE [shown EXCEPT !.latest = FALSE]
    /\ last' = [msg |-> msg, pre |-> browser, preShown |-> shown,
                command |-> r.command, view |-> current_view]
    /\ current_view' = ViewAfter(current_view, "BrowserMessage")
    /\ UNCHANGED <<fetch, walk, pm, fm>>

\* ------------------------------------------------------- fetch_page

\* Nodes of the tree html5ever builds (markup5ever_rcdom::NodeData). Every
\* node carries the same fields; names and contents are sequences of
\* characters.
TextNode(contents) ==
    [kind |-> "Text", name |-> <<>>, contents |-> contents, children |-> <<>>]

ElementNode(name, children) ==
    [kind |-> "Element", name |-> name, contents |-> <<>>, children |-> children]

DocumentNode(children) ==
    [kind |-> "Document", name |-> <<>>, contents |-> <<>>, children |-> children]

\* NodeData::Comment: one of the kinds of the `_` arm.
CommentNode(contents) ==
    [kind |-> "Comment", name |-> <<>>, contents |-> contents, children |-> <<>>]

WhiteSpace == {" ", "\n", "\t"}

RECURSIVE TrimStart(_)
TrimStart(s) ==
    IF s # <<>> /\ s[1] \in WhiteSpace THEN TrimStart(Tail(s)) ELSE s

RECURSIVE TrimEnd(_)
TrimEnd(s) ==
    IF s # <<>> /\ s[Len(s)] \in WhiteSpace
    THEN TrimEnd(SubSeq(s, 1, Len(s) - 1))
    ELSE s

\* str::trim
Trim(s) == TrimEnd(TrimStart(s))

script == <<"s", "c", "r", "i", "p", "t">>

style == <<"s", "t", "y", "l", "e">>

\* The Text arm pushing the trimmed contents.
TextArmTrimmed(contents, output) ==
    IF Trim(contents) # <<>>
    THEN output \o Trim(contents) \o <<"\n">>
    ELSE output

\* NodeData::Text: the output buffer after the arm.
TextArm(contents, output) ==
    IF Trim(contents) # <<>>
    THEN output \o contents \o <<"\n">>
    ELSE output

\* The Element arm's test: is the subtree skipped?
Skipped(handle) ==
    handle.kind = "Element" /\ ~(handle.name # script /\ handle.name # style)

\* extract_children visiting the children last to first.
RECURSIVE ExtractChildrenReversed(_, _)
RECURSIVE extract_text_from_node(_, _)
ExtractChildrenReversed(children, output) ==
    IF children = <<>>
    THEN output
    ELSE extract_text_from_node(Head(children),
                                ExtractChildrenReversed(Tail(children), output))

RECURSIVE extract_children(_, _)
\* for child in handle.children: extract_text_from_node(child, output)
extract_children(children, output) ==
    IF children = <<>>
    THEN output
    ELSE extract_children(Tail(children),
                          extract_text_from_node(Head(children), output))

\* extract_text_from_node that does not skip style elements.
ExtractNodeKeepsStyle(handle, output) ==
    IF handle.kind = "Text"
    THEN TextArm(handle.contents, output)
    ELSE IF handle.kind = "Element" /\ handle.name = script
    THEN output
    ELSE extract_children(handle.children, output)

\* Returns the output buffer after the visit of handle.
extract_text_from_node(handle, output) ==
    IF handle.kind = "Text"
    THEN TextArm(handle.contents, output)
    ELSE IF Skipped(handle)
    THEN output
    ELSE extract_children(handle.children, output)

UpperCase ==
    << "A", "B", "C", "D", "E", "F", "G", "H", "I", "J", "K", "L", "M",
       "N", "O", "P", "Q", "R", "S", "T", "U", "V", "W", "X", "Y", "Z" >>

LowerCase ==
    << "a", "b", "c", "d", "e", "f", "g", "h", "i", "j", "k", "l", "m",
       "n", "o", "p", "q", "r", "s", "t", "u", "v", "w", "x", "y", "z" >>

\* The tokenizer's treatment of a tag-name character: ASCII upper-case
\* letters are appended in lower case.
LowerChar(c) ==
    IF \E i \in 1..Len(UpperCase) : UpperCase[i] = c
    THEN LowerCase[CHOOSE i \in 1..Len(UpperCase) : UpperCase[i] = c]
    ELSE c

to_ascii_lowercase(name) == [i \in 1..Len(name) |-> LowerChar(name[i])]

\* The tree with every element name in lower case.
RECURSIVE LowerNames(_)
LowerNames(node) ==
    [node EXCEPT !.name = to_ascii_lowercase(node.name),
                 !.children = [i \in 1..Len(node.children) |->
                                   LowerNames(node.children[i])]]

html == <<"h", "t", "m", "l">>

head == <<"h", "e", "a", "d">>

body == <<"b", "o", "d", "y">>

div == <<"d", "i", "v">>

\* The document html5ever builds around the children of body.
Page(children) ==
    DocumentNode(<<ElementNode(html, << ElementNode(head, <<>>),
                                        ElementNode(body, children) >>)>>)

\* A response body: the element tree its markup spells, with the tag names
\* as written. Every body fits the stack of the thread that extracts it.
Bodies ==
    { \* <html><body><p>Hello</p><script>evil()</script></body></html>
      [src |-> "hello",
       dom |-> Page(<< ElementNode(<<"p">>,
                           <<TextNode(<<"H", "e", "l", "l", "o">>)>>),
                       ElementNode(script,
                           <<TextNode(<<"e", "v", "i", "l", "(", ")">>)>>) >>)],
      \* <div>A</div><div>B</div>
      [src |-> "divs",
       dom |-> Page(<< ElementNode(div, <<TextNode(<<"A">>)>>),
                       ElementNode(div, <<TextNode(<<"B">>)>>) >>)],
      \* the empty string
      [src |-> "empty",
       dom |-> Page(<<>>)],
      \* whitespace around and between the texts, a comment, a style element
      [src |-> "spaces",
       dom |-> Page(<< TextNode(<<" ", "\n">>),
                       ElementNode(<<"p">>, <<TextNode(<<" ", "C", " ">>)>>),
                       CommentNode(<<"c">>),
                       ElementNode(style, <<TextNode(<<"x">>)>>),
                       TextNode(<<"\t">>),
                       TextNode(<<"D", " ">>) >>)],
      \* <SCRIPT>u</SCRIPT><Style>v</Style><DIV>Z</DIV>
      [src |-> "upper",
       dom |-> Page(<< ElementNode(<<"S", "C", "R", "I", "P", "T">>,
                           <<TextNode(<<"u">>)>>),
                       ElementNode(<<"S", "t", "y", "l", "e">>,
                           <<TextNode(<<"v">>)>>),
                       ElementNode(<<"D", "I", "V">>,
                           <<TextNode(<<"Z">>)>>) >>)],
      \* <svg><script><g>n</g></script></svg>after
      [src |-> "svg",
       dom |-> Page(<< ElementNode(<<"s", "v", "g">>,
                           <<ElementNode(script,
                               <<ElementNode(<<"g">>, <<TextNode(<<"n">>)>>)>>)>>),
                       TextNode(<<"a", "f", "t", "e", "r">>) >>)],
      \* text inside script and style only
      [src |-> "onlyscript",
       dom |-> Page(<< ElementNode(script, <<TextNode(<<"j">>)>>),
                       ElementNode(style, <<TextNode(<<"k">>)>>) >>)],
      \* whitespace-only text only
      [src |-> "blank",
       dom |-> Page(<< TextNode(<<" ">>),
                       ElementNode(<<"p">>, <<TextNode(<<"\n", " ">>)>>) >>)] }

\* Bodies nested deeper than the stack holds:
\* <div><div><div><div>deep</div></div></div></div>
DeepBodies ==
    { [src |-> "deep",
       dom |-> Page(<<ElementNode(div, <<ElementNode(div, <<ElementNode(div,
                   <<ElementNode(div,
                       <<TextNode(<<"d", "e", "e", "p">>)>>)>>)>>)>>)>>)] }

\* The activations of extract_text_from_node on the stack at the deepest
\* point of its run on handle.
RECURSIVE FramesNeeded(_)
RECURSIVE MaxFrames(_)
MaxFrames(children) ==
    IF children = <<>>
    THEN 0
    ELSE LET h == FramesNeeded(Head(children))
             t == MaxFrames(Tail(children))
         IN  IF h > t THEN h ELSE t

FramesNeeded(handle) ==
    IF handle.kind = "Text" \/ Skipped(handle)
    THEN 1
    ELSE 1 + MaxFrames(handle.children)

\* parse_document that keeps the tag names as written.
ParseKeepsCase(markup) == markup.dom

\* parse_document(..).read_from(html): reading from a byte slice cannot fail;
\* the tree carries every tag name in lower case.
parse_document(markup) == LowerNames(markup.dom)

extract_text_from_html(markup) ==
    Trim(extract_text_from_node(parse_document(markup), <<>>))

\* Status codes a response may carry.
StatusCodes == {100, 199, 200, 204, 299, 300, 404, 500}

\* is_success accepting every code up to 299.
IsSuccessNoLowerBound(code) == code <= 299

\* StatusCode::is_success
is_success(code) == 200 <= code /\ code <= 299

\* StatusCode::canonical_reason, as an Option
canonical_reason(code) ==
    CASE code = 100 -> Some("Continue")
      [] code = 200 -> Some("OK")
      [] code = 204 -> Some("No Content")
      [] code = 300 -> Some("Multiple Choices")
      [] code = 404 -> Some("Not Found")
      [] code = 500 -> Some("Internal Server Error")
      [] OTHER      -> None

\* Option::unwrap_or
unwrap_or(opt, default) == IF opt = None THEN default ELSE opt[1]

\* format!("<prefix>{}", e) and format!("HTTP {}: {}", code, reason)
ErrorMessage(prefix, code, text) ==
    [prefix |-> prefix, code |-> code, text |-> text]

\* What the outside world does to one run of fetch_page: whether the client
\* can be built, whether the request gets a response, the status of that
\* response, whether its body can be read, and the body.
Scenarios ==
    [ build_err : {None, Some("tls backend")},
      send_err  : {None, Some("dns error")},
      status    : StatusCodes,
      text_err  : {None, Some("decode error")},
      body      : Bodies \cup DeepBodies ]

NoScenario ==
    [ build_err |-> None, send_err |-> None, status |-> 0,
      text_err |-> None, body |-> [src |-> "", dom |-> DocumentNode(<<>>)] ]

FetchIdle ==
    [ pc |-> "idle", sc |-> NoScenario, bodyRead |-> FALSE,
      extractorRun |-> FALSE, outcome |-> None ]

\* return Err(..) / the ? operator / the final Ok(..)
Return(f, result) == [f EXCEPT !.pc = "done", !.outcome = Some(result)]

\* reqwest::Client::builder()...build().map_err(..)?
BuildStage(f) ==
    IF f.sc.build_err # None
    THEN Return(f, Err(ErrorMessage("Failed to create HTTP client: ", None,
                                    f.sc.build_err[1])))
    ELSE [f EXCEPT !.pc = "send"]

\* client.get(&url).send().await.map_err(..)?
SendStage(f) ==
    IF f.sc.send_err # None
    THEN Return(f, Err(ErrorMessage("Failed to fetch page: ", None,
                                    f.sc.send_err[1])))
    ELSE [f EXCEPT !.pc = "status"]

\* The status check made after the body has been read.
StatusStageReadsBody(f) ==
    IF ~is_success(f.sc.status)
    THEN Return([f EXCEPT !.bodyRead = TRUE],
                Err(ErrorMessage("HTTP ", Some(f.sc.status),
                        unwrap_or(canonical_reason(f.sc.status), "Unknown error"))))
    ELSE [f EXCEPT !.pc = "text"]

\* if !response.status().is_success() { return Err(..) }
StatusStage(f) ==
    IF ~is_success(f.sc.status)
    THEN Return(f, Err(ErrorMessage("HTTP ", Some(f.sc.status),
                        unwrap_or(canonical_reason(f.sc.status), "Unknown error"))))
    ELSE [f EXCEPT !.pc = "text"]

\* response.text().await.map_err(..)?
TextStage(f) ==
    IF f.sc.text_err # None
    THEN Return([f EXCEPT !.bodyRead = TRUE],
                Err(ErrorMessage("Failed to read response: ", None,
                                 f.sc.text_err[1])))
    ELSE [f EXCEPT !.pc = "extract", !.bodyRead = TRUE]

\* Ok(extract_text_from_html(&html)); the process is aborted when the
\* traversal needs more stack than the thread has.
ExtractStage(f) ==
    IF FramesNeeded(parse_document(f.sc.body)) > StackLimit
    THEN [f EXCEPT !.pc = "aborted", !.extractorRun = TRUE]
    ELSE Return([f EXCEPT !.extractorRun = TRUE],
                Ok(extract_text_from_html(f.sc.body)))

\* ---------------------------------- extract_text_from_html, call by call

\* An activation of extract_text_from_node: its handle and the position of
\* its loop over the children.
Frame(handle) == [handle |-> handle, next |-> 1]

NoNode == DocumentNode(<<>>)

WalkIdle ==
    [ pc |-> "idle", src |-> "", arg |-> NoNode, stack |-> <<>>,
      output |-> <<>>, visited |-> NoNode, before |-> <<>>, result |-> None ]

Top(w) == w.stack[Len(w.stack)]

\* extract_text_from_html up to its call of extract_text_from_node
StartWalk(w, markup) ==
    [w EXCEPT !.pc = "call", !.src = markup.src,
              !.arg = parse_document(markup)]

\* The call extract_text_from_node(arg, output): a new activation.
CallNode(w) ==
    [w EXCEPT !.pc = "match", !.stack = Append(w.stack, Frame(w.arg))]

\* The same call when the stack of the thread is used up.
Overflow(w) == [w EXCEPT !.pc = "overflow"]

\* match handle.data: the Text arm, a skipped element, or on to the loop.
MatchNode(w) ==
    LET handle == Top(w).handle
    IN  IF handle.kind = "Text"
        THEN [w EXCEPT !.pc = "return",
                       !.output = TextArm(handle.contents, w.output),
                       !.visited = handle,
                       !.before = w.output]
        ELSE IF Skipped(handle)
        THEN [w EXCEPT !.pc = "return", !.visited = handle,
                       !.before = w.output]
        ELSE [w EXCEPT !.pc = "loop", !.visited = handle,
                       !.before = w.output]

\* for child in handle.children.borrow().iter(): the next child, or the end.
LoopChildren(w) ==
    LET top == Top(w)
    IN  IF top.next <= Len(top.handle.children)
        THEN [w EXCEPT !.pc = "call",
                       !.arg = top.handle.children[top.next],
                       !.stack[Len(w.stack)].next = top.next + 1]
        ELSE [w EXCEPT !.pc = "return"]

\* The activation returns to its caller's loop, or to extract_text_from_html.
ReturnNode(w) ==
    LET rest == SubSeq(w.stack, 1, Len(w.stack) - 1)
    IN  [w EXCEPT !.pc = IF rest = <<>> THEN "trim" ELSE "loop",
                  !.stack = rest]

\* text.trim().to_string()
TrimOutput(w) == [w EXCEPT !.pc = "done", !.result = Some(Trim(w.output))]

\* ------------------------------------------------------ package manager

\* Texts typed into the search box.
Queries == {"", "a", "ab"}

\* PackageManager::new
PackageManagerNew ==
    [ search_query |-> "", packages |-> <<>>, loading |-> FALSE,
      message |-> None, error |-> None ]

\* The operation a Command performs: search_packages(query),
\* install_package(name), remove_package(name) or update_cache().
Operation(kind, arg) == [kind |-> kind, arg |-> arg, overtaken |-> FALSE]

Search(a, query) ==
    IF query # ""
    THEN [ app |-> [a EXCEPT !.search_query = query,
                             !.loading = TRUE,
                             !.error = None],
           command |-> Some(Operation("search", query)) ]
    ELSE [ app |-> [a EXCEPT !.search_query = query, !.packages = <<>>],
           command |-> None ]

SearchResults(a, packages) ==
    [ app |-> [a EXCEPT !.packages = packages, !.loading = FALSE],
      command |-> None ]

Install(a, package_name) ==
    [ app |-> [a EXCEPT !.loading = TRUE,
                        !.error = None,
                        !.message = Some(<<"Installing ", package_name, "...">>)],
      command |-> Some(Operation("install", package_name)) ]

Remove(a, package_name) ==
    [ app |-> [a EXCEPT !.loading = TRUE,
                        !.error = None,
                        !.message = Some(<<"Removing ", package_name, "...">>)],
      command |-> Some(Operation("remove", package_name)) ]

UpdateCache(a) ==
    [ app |-> [a EXCEPT !.loading = TRUE,
                        !.error = None,
                        !.message = Some(<<"Updating package cache...">>)],
      command |-> Some(Operation("update", "")) ]

OperationComplete(a, msg) ==
    [ app |-> [a EXCEPT !.loading = FALSE,
                        !.message = Some(msg),
                        !.error = None],
      command |-> IF a.search_query # ""
                  THEN Some(Operation("search", a.search_query))
                  ELSE None ]

OperationError(a, error) ==
    [ app |-> [a EXCEPT !.loading = FALSE,
                        !.error = Some(error),
                        !.message = None],
      command |-> None ]

PackageManagerClose(a) == [ app |-> a, command |-> None ]

\* search_packages: the packages apk lists for the query, each with the
\* answer of check_if_installed at that moment. The system knows one
\* package, q, which the query "a" matches.
search_packages(query, installed) ==
    IF query = "a"
    THEN <<[name |-> "q", installed |-> installed]>>
    ELSE <<>>

\* The Ok texts of install_package, remove_package and update_cache.
OperationOk(op) ==
    CASE op.kind = "install" -> <<"Successfully installed ", op.arg>>
      [] op.kind = "remove"  -> <<"Successfully removed ", op.arg>>
      [] OTHER               -> <<"Package cache updated successfully">>

\* Is package q installed once op has succeeded?
InstalledAfter(op, installed) ==
    CASE op.kind = "install" -> TRUE
      [] op.kind = "remove"  -> FALSE
      [] OTHER               -> installed

\* Searches issued before position i have been overtaken by the result of
\* the search at position i.
Overtake(q, i) ==
    [j \in 1..Len(q) |->
        IF j < i /\ q[j].kind = "search"
        THEN [q[j] EXCEPT !.overtaken = TRUE]
        ELSE q[j]]

NoOperation == Operation("", "")

PmInit ==
    [ app       |-> PackageManagerNew,
      inflight  |-> <<>>,
      installed |-> FALSE,
      listed    |-> "",
      last      |-> [type |-> "New", op |-> NoOperation,
                     pre |-> PackageManagerNew] ]

\* The bound of the model: an operation is started only while fewer than
\* MaxOperations are in flight.
PmWithinBounds(r) ==
    r.command # None => Len(pm.inflight) < MaxOperations

\* The runtime around PackageManager::update: the new state is stored and
\* the Command's operation, if any, is started. listed is the query the
\* package list stands for.
PmDispatch(type, op, q, r, installed) ==
    /\ pm' = [ app       |-> r.app,
               inflight  |-> IF r.command = None THEN q
                             ELSE Append(q, r.command[1]),
               installed |-> installed,
               listed    |-> IF type = "SearchResults" THEN op.arg
                             ELSE IF type = "Search" /\ r.command = None THEN ""
                             ELSE pm.listed,
               last      |-> [type |-> type, op |-> op, pre |-> pm.app] ]
    /\ current_view' = ViewAfter(current_view, "PackageManagerMessage")
    /\ UNCHANGED <<browserVars, fetch, walk, fm>>

\* --------------------------------------------------------- file manager

\* A path is the sequence of its components below the root; a component is
\* a sequence of characters.
Root == <<>>

\* Path::parent, as an Option
parent(path) ==
    IF path = Root THEN None ELSE Some(SubSeq(path, 1, Len(path) - 1))

\* Path::join with a single component
join(path, name) == Append(path, name)

\* An entry of the file system.
Entry(path, is_dir) == [path |-> path, is_dir |-> is_dir]

exists(fs, path) == path = Root \/ \E e \in fs : e.path = path

is_dir(fs, path) == path = Root \/ Entry(path, TRUE) \in fs

\* fs::read_dir, as an Option: the entries directly below path.
read_dir(fs, path) ==
    IF is_dir(fs, path)
    THEN Some({ e \in fs : /\ Len(e.path) = Len(path) + 1
                           /\ SubSeq(e.path, 1, Len(path)) = path })
    ELSE None

FileItem(e) ==
    [name |-> e.path[Len(e.path)], path |-> e.path, is_dir |-> e.is_dir]

\* Position of a lower-case letter in the alphabet.
Rank(c) == CHOOSE i \in 1..Len(LowerCase) : LowerCase[i] = c

\* str::cmp(..) == Less on two lower-case strings
RECURSIVE StrLess(_, _)
StrLess(x, y) ==
    IF y = <<>> THEN FALSE
    ELSE IF x = <<>> THEN TRUE
    ELSE IF x[1] = y[1] THEN StrLess(Tail(x), Tail(y))
    ELSE Rank(x[1]) < Rank(y[1])

\* The comparison of sort_by: directories first, then by lower-case name.
ItemLess(x, y) ==
    IF x.is_dir /\ ~y.is_dir THEN TRUE
    ELSE IF ~x.is_dir /\ y.is_dir THEN FALSE
    ELSE StrLess(to_ascii_lowercase(x.name), to_ascii_lowercase(y.name))

\* self.items.sort_by(..) on the items pushed from a set of entries.
RECURSIVE SortItems(_)
SortItems(S) ==
    IF S = {}
    THEN <<>>
    ELSE LET first == CHOOSE x \in S : \A y \in S \ {x} : ItemLess(x, y)
         IN  <<first>> \o SortItems(S \ {first})

\* load_directory: the items of path, hidden entries left out, sorted; no
\* items when the directory cannot be read.
load_directory(a, fs, path) ==
    LET entries == read_dir(fs, path)
        shown_  == IF entries = None THEN {}
                   ELSE { FileItem(e) : e \in { x \in entries[1] :
                              x.path[Len(x.path)][1] # "." } }
    IN  [a EXCEPT !.items = SortItems(shown_)]

\* FileManager::new
FileManagerNew(fs, default_path) ==
    load_directory([ current_path   |-> default_path,
                     items          |-> <<>>,
                     selected_index |-> None,
                     create_mode    |-> "None",
                     new_item_name  |-> <<>>,
                     error_message  |-> None ],
                   fs, default_path)

NavigateTo(a, fs, path) ==
    IF is_dir(fs, path) /\ exists(fs, path)
    THEN [load_directory([a EXCEPT !.current_path = path], fs, path)
              EXCEPT !.selected_index = None, !.error_message = None]
    ELSE a

GoUp(a, fs) ==
    IF parent(a.current_path) # None
    THEN [load_directory([a EXCEPT !.current_path = parent(a.current_path)[1]],
                         fs, parent(a.current_path)[1])
              EXCEPT !.selected_index = None, !.error_message = None]
    ELSE a

CreateFolder(a) ==
    [a EXCEPT !.create_mode = "Folder", !.new_item_name = <<>>,
              !.error_message = None]

CreateFile(a) ==
    [a EXCEPT !.create_mode = "File", !.new_item_name = <<>>,
              !.error_message = None]

UpdateNewItemName(a, name) == [a EXCEPT !.new_item_name = name]

\* fs::write(&new_path, "") and fs::create_dir(&new_path): the error, as an
\* Option. write fails on a directory, create_dir on anything that exists,
\* both when the parent is no directory.
CreateError(fs, mode, new_path) ==
    CASE mode = "None" -> None
      [] ~is_dir(fs, parent(new_path)[1]) -> Some("No such file or directory")
      [] mode = "File" /\ is_dir(fs, new_path) -> Some("Is a directory")
      [] mode = "Folder" /\ exists(fs, new_path) -> Some("File exists")
      [] OTHER -> None

\* The file system after fs::write / fs::create_dir.
FsAfterCreate(fs, mode, new_path) ==
    IF mode = "None" \/ CreateError(fs, mode, new_path) # None
       \/ exists(fs, new_path)
    THEN fs
    ELSE fs \cup {Entry(new_path, mode = "Folder")}

\* ConfirmCreate that closes the dialog when the creation failed.
ConfirmCreateGivesUp(a, fs) ==
    IF a.new_item_name # <<>>
    THEN LET new_path == join(a.current_path, a.new_item_name)
             result   == CreateError(fs, a.create_mode, new_path)
             after    == FsAfterCreate(fs, a.create_mode, new_path)
         IN  IF result = None
             THEN [load_directory(a, after, a.current_path)
                       EXCEPT !.create_mode = "None",
                              !.new_item_name = <<>>,
                              !.error_message = None]
             ELSE [a EXCEPT !.create_mode = "None",
                            !.new_item_name = <<>>,
                            !.error_message = Some(<<"Error: ", result[1]>>)]
    ELSE a

\* The FileManager after ConfirmCreate; the file system after it is
\* FsAfterConfirm.
ConfirmCreate(a, fs) ==
    IF a.new_item_name # <<>>
    THEN LET new_path == join(a.current_path, a.new_item_name)
             result   == CreateError(fs, a.create_mode, new_path)
             after    == FsAfterCreate(fs, a.create_mode, new_path)
         IN  IF result = None
             THEN [load_directory(a, after, a.current_path)
                       EXCEPT !.create_mode = "None",
                              !.new_item_name = <<>>,
                              !.error_message = None]
             ELSE [a EXCEPT !.error_message = Some(<<"Error: ", result[1]>>)]
    ELSE a

FsAfterConfirm(a, fs) ==
    IF a.new_item_name # <<>>
    THEN FsAfterCreate(fs, a.create_mode, join(a.current_path, a.new_item_name))
    ELSE fs

CancelCreate(a) ==
    [a EXCEPT !.create_mode = "None", !.new_item_name = <<>>,
              !.error_message = None]

SelectItem(a, index) == [a EXCEPT !.selected_index = Some(index)]

OpenItem(a, fs, path) ==
    IF is_dir(fs, path)
    THEN [load_directory([a EXCEPT !.current_path = path], fs, path)
              EXCEPT !.selected_index = None]
    ELSE a

RefreshView(a, fs) == load_directory(a, fs, a.current_path)

FileManagerClose(a) == a

\* Names typed into the dialog.
NewItemNames == {<<>>, <<"C">>}

\* The file system at start: /b, /.h and the directory /d.
InitialFs ==
    { Entry(<<<<"b">>>>, FALSE),
      Entry(<<<<".", "h">>>>, FALSE),
      Entry(<<<<"d">>>>, TRUE) }

\* Paths a NavigateTo may carry.
NavigatePaths == {Root, <<<<"b">>>>}

FmInit ==
    [ app |-> FileManagerNew(InitialFs, Root),
      fs  |-> InitialFs ]

\* The runtime around FileManager::update, and the bound of the model: no
\* more than MaxEntries entries come to exist.
FmWithinBounds(fs) == Cardinality(fs) <= MaxEntries

FmDispatch(a, fs) ==
    /\ FmWithinBounds(fs)
    /\ fm' = [app |-> a, fs |-> fs]
    /\ current_view' = ViewAfter(current_view, "FileManagerMessage")
    /\ UNCHANGED <<browserVars, fetch, walk, pm>>

\* No outcome has been stored yet.
ShownNothing == [set |-> FALSE, url |-> <<>>, latest |-> FALSE]

Init ==
    /\ \E config \in Configs :
          /\ browser = New(config)
          /\ last = [msg |-> Msg("New", <<>>, NoResult, NoFetch),
                     pre |-> New(config),
                     preShown |-> ShownNothing,
                     command |-> CommandNone,
                     view |-> "Desktop"]
    /\ pending = <<>>
    /\ shown = ShownNothing
    /\ fetch = FetchIdle
    /\ walk = WalkIdle
    /\ pm = PmInit
    /\ fm = FmInit
    /\ current_view = "Desktop"

DoUpdateUrl ==
    \E url \in TypedTexts :
        /\ WithinBounds(UpdateUrl(browser, url))
        /\ Dispatch(Msg("UpdateUrl", url, NoResult, NoFetch), UpdateUrl(browser, url))

DoNavigate ==
    \E url \in Inputs :
        /\ WithinBounds(Navigate(browser, url))
        /\ Dispatch(Msg("Navigate", url, NoResult, NoFetch), Navigate(browser, url))

DoGoBack ==
    /\ WithinBounds(GoBack(browser))
    /\ Dispatch(Msg("GoBack", <<>>, NoResult, NoFetch), GoBack(browser))

DoGoForward ==
    /\ WithinBounds(GoForward(browser))
    /\ Dispatch(Msg("GoForward", <<>>, NoResult, NoFetch), GoForward(browser))

DoRefresh ==
    /\ WithinBounds(Refresh(browser))
    /\ Dispatch(Msg("Refresh", <<>>, NoResult, NoFetch), Refresh(browser))

DoClose ==
    /\ WithinBounds(Close(browser))
    /\ Dispatch(Msg("Close", <<>>, NoResult, NoFetch), Close(browser))

\* A fetch in flight resolves, in any order, and its result is delivered; the
\* Command that update returns for it is run like any other.
DoLoadComplete ==
    \E i \in 1..Len(pending) :
        \E result \in Results :
            LET r == LoadComplete(browser, result)
                q == RemoveAt(pending, i)
            IN  /\ browser' = r.browser
                /\ pending' = IF r.command = CommandNone
                              THEN q
                              ELSE Append(Superseded(q),
                                          [url |-> r.command[1], latest |-> TRUE])
                /\ shown' = [set |-> TRUE, url |-> pending[i].url,
                             latest |-> pending[i].latest /\ r.command = CommandNone]
                /\ last' = [msg |-> Msg("LoadComplete", <<>>, result, pending[i]),
                            pre |-> browser, preShown |-> shown,
                            command |-> r.command, view |-> current_view]
                /\ current_view' = ViewAfter(current_view, "BrowserMessage")
                /\ UNCHANGED <<fetch, walk, pm, fm>>

Next ==
    \/ DoUpdateUrl
    \/ DoNavigate
    \/ DoGoBack
    \/ DoGoForward
    \/ DoRefresh
    \/ DoClose
    \/ DoLoadComplete

Spec == Init /\ [][Next]_vars

\* The messages the user sends.
UserStep ==
    \/ DoUpdateUrl
    \/ DoNavigate
    \/ DoGoBack
    \/ DoGoForward
    \/ DoRefresh
    \/ DoClose

\* fetch_page builds its client with a 10 second timeout, so every fetch in
\* flight resolves and the runtime delivers its LoadComplete: a completion
\* that stays possible is eventually taken.
FairSpec == Spec /\ WF_vars(DoLoadComplete)

\* ------------------------------------------- fetch_page, stage by stage

\* fetch_page is called; the world's part in this run is fixed.
FetchStart ==
    /\ fetch.pc = "idle"
    /\ \E sc \in Scenarios : fetch' = [fetch EXCEPT !.pc = "build", !.sc = sc]
    /\ UNCHANGED <<browserVars, walk, pm, fm, current_view>>

FetchBuild ==
    /\ fetch.pc = "build"
    /\ fetch' = BuildStage(fetch)
    /\ UNCHANGED <<browserVars, walk, pm, fm, current_view>>

FetchSend ==
    /\ fetch.pc = "send"
    /\ fetch' = SendStage(fetch)
    /\ UNCHANGED <<browserVars, walk, pm, fm, current_view>>

FetchStatus ==
    /\ fetch.pc = "status"
    /\ fetch' = StatusStage(fetch)
    /\ UNCHANGED <<browserVars, walk, pm, fm, current_view>>

FetchText ==
    /\ fetch.pc = "text"
    /\ fetch' = TextStage(fetch)
    /\ UNCHANGED <<browserVars, walk, pm, fm, current_view>>

FetchExtract ==
    /\ fetch.pc = "extract"
    /\ fetch' = ExtractStage(fetch)
    /\ UNCHANGED <<browserVars, walk, pm, fm, current_view>>

NextFetch ==
    \/ FetchStart
    \/ FetchBuild
    \/ FetchSend
    \/ FetchStatus
    \/ FetchText
    \/ FetchExtract

SpecFetch == Init /\ [][NextFetch]_vars

\* -------------------------------------- extract_text_from_html, stepwise

notWalk == <<browser, pending, shown, last, fetch, pm, fm, current_view>>

ExtractStart ==
    /\ walk.pc = "idle"
    /\ \E markup \in Bodies \cup DeepBodies : walk' = StartWalk(walk, markup)
    /\ UNCHANGED notWalk

ExtractCall ==
    /\ walk.pc = "call"
    /\ Len(walk.stack) < StackLimit
    /\ walk' = CallNode(walk)
    /\ UNCHANGED notWalk

ExtractOverflow ==
    /\ walk.pc = "call"
    /\ Len(walk.stack) >= StackLimit
    /\ walk' = Overflow(walk)
    /\ UNCHANGED notWalk

ExtractMatch ==
    /\ walk.pc = "match"
    /\ walk' = MatchNode(walk)
    /\ UNCHANGED notWalk

ExtractLoop ==
    /\ walk.pc = "loop"
    /\ walk' = LoopChildren(walk)
    /\ UNCHANGED notWalk

ExtractReturn ==
    /\ walk.pc = "return"
    /\ walk' = ReturnNode(walk)
    /\ UNCHANGED notWalk

ExtractTrim ==
    /\ walk.pc = "trim"
    /\ walk' = TrimOutput(walk)
    /\ UNCHANGED notWalk

NextExtract ==
    \/ ExtractStart
    \/ ExtractCall
    \/ ExtractOverflow
    \/ ExtractMatch
    \/ ExtractLoop
    \/ ExtractReturn
    \/ ExtractTrim

SpecExtract == Init /\ [][NextExtract]_vars

\* ------------------------------------------------ package manager steps

\* text_input(..).on_input(Message::Search)
PmSearch ==
    \E query \in Queries :
        /\ PmWithinBounds(Search(pm.app, query))
        /\ PmDispatch("Search", NoOperation, pm.inflight,
                      Search(pm.app, query), pm.installed)

\* The Install button of a listed package that is not installed; the list
\* is on screen only while loading is false.
PmInstall ==
    /\ ~pm.app.loading
    /\ \E i \in 1..Len(pm.app.packages) :
           /\ ~pm.app.packages[i].installed
           /\ PmWithinBounds(Install(pm.app, pm.app.packages[i].name))
           /\ PmDispatch("Install", NoOperation, pm.inflight,
                         Install(pm.app, pm.app.packages[i].name), pm.installed)

\* The Remove button of a listed package that is installed.
PmRemove ==
    /\ ~pm.app.loading
    /\ \E i \in 1..Len(pm.app.packages) :
           /\ pm.app.packages[i].installed
           /\ PmWithinBounds(Remove(pm.app, pm.app.packages[i].name))
           /\ PmDispatch("Remove", NoOperation, pm.inflight,
                         Remove(pm.app, pm.app.packages[i].name), pm.installed)

PmUpdateCache ==
    /\ PmWithinBounds(UpdateCache(pm.app))
    /\ PmDispatch("UpdateCache", NoOperation, pm.inflight,
                  UpdateCache(pm.app), pm.installed)

PmClose ==
    /\ PmWithinBounds(PackageManagerClose(pm.app))
    /\ PmDispatch("Close", NoOperation, pm.inflight,
                  PackageManagerClose(pm.app), pm.installed)

\* A search in flight ends, in any order: Ok becomes SearchResults, Err
\* becomes OperationError.
PmSearchEnds ==
    \E i \in 1..Len(pm.inflight) :
        /\ pm.inflight[i].kind = "search"
        /\ \/ PmDispatch("SearchResults", pm.inflight[i],
                         RemoveAt(Overtake(pm.inflight, i), i),
                         SearchResults(pm.app,
                             search_packages(pm.inflight[i].arg, pm.installed)),
                         pm.installed)
           \/ PmDispatch("OperationError", pm.inflight[i],
                         RemoveAt(pm.inflight, i),
                         OperationError(pm.app, <<"stderr">>),
                         pm.installed)

\* An install, remove or cache update in flight ends: Ok becomes
\* OperationComplete, Err becomes OperationError.
PmOperationEnds ==
    \E i \in 1..Len(pm.inflight) :
        /\ pm.inflight[i].kind # "search"
        /\ \/ PmDispatch("OperationComplete", pm.inflight[i],
                         RemoveAt(pm.inflight, i),
                         OperationComplete(pm.app, OperationOk(pm.inflight[i])),
                         InstalledAfter(pm.inflight[i], pm.installed))
           \/ PmDispatch("OperationError", pm.inflight[i],
                         RemoveAt(pm.inflight, i),
                         OperationError(pm.app, <<"stderr">>),
                         pm.installed)

NextPm ==
    \/ PmSearch
    \/ PmInstall
    \/ PmRemove
    \/ PmUpdateCache
    \/ PmClose
    \/ PmSearchEnds
    \/ PmOperationEnds

SpecPm == Init /\ [][NextPm]_vars

\* --------------------------------------------------- file manager steps

FmNavigateTo ==
    \E path \in NavigatePaths :
        /\ FmWithinBounds(fm.fs)
        /\ FmDispatch(NavigateTo(fm.app, fm.fs, path), fm.fs)

FmGoUp ==
    /\ FmWithinBounds(fm.fs)
    /\ FmDispatch(GoUp(fm.app, fm.fs), fm.fs)

FmCreateFolder ==
    /\ FmWithinBounds(fm.fs)
    /\ FmDispatch(CreateFolder(fm.app), fm.fs)

FmCreateFile ==
    /\ FmWithinBounds(fm.fs)
    /\ FmDispatch(CreateFile(fm.app), fm.fs)

\* The dialog is on screen only while create_mode is not None.
FmUpdateNewItemName ==
    /\ fm.app.create_mode # "None"
    /\ \E name \in NewItemNames :
           FmDispatch(UpdateNewItemName(fm.app, name), fm.fs)

FmConfirmCreate ==
    /\ fm.app.create_mode # "None"
    /\ FmDispatch(ConfirmCreate(fm.app, fm.fs),
                  FsAfterConfirm(fm.app, fm.fs))

FmCancelCreate ==
    /\ fm.app.create_mode # "None"
    /\ FmDispatch(CancelCreate(fm.app), fm.fs)

\* A click on a listed file; the index is the one of the listing on screen.
FmSelectItem ==
    \E index \in 0..(Len(fm.app.items) - 1) :
        /\ ~fm.app.items[index + 1].is_dir
        /\ FmDispatch(SelectItem(fm.app, index), fm.fs)

\* A click on a listed directory.
FmOpenItem ==
    \E i \in 1..Len(fm.app.items) :
        /\ fm.app.items[i].is_dir
        /\ FmDispatch(OpenItem(fm.app, fm.fs, fm.app.items[i].path),
                      fm.fs)

FmRefreshView ==
    /\ FmWithinBounds(fm.fs)
    /\ FmDispatch(RefreshView(fm.app, fm.fs), fm.fs)

FmClose ==
    /\ FmWithinBounds(fm.fs)
    /\ FmDispatch(FileManagerClose(fm.app), fm.fs)

\* Another process removes an entry, with everything below it.
FsRemoved ==
    \E e \in fm.fs :
        /\ fm' = [fm EXCEPT !.fs = { x \in fm.fs :
                      ~(/\ Len(x.path) >= Len(e.path)
                        /\ SubSeq(x.path, 1, Len(e.path)) = e.path) }]
        /\ UNCHANGED <<browserVars, fetch, walk, pm, current_view>>

NextFm ==
    \/ FmNavigateTo
    \/ FmGoUp
    \/ FmCreateFolder
    \/ FmCreateFile
    \/ FmUpdateNewItemName
    \/ FmConfirmCreate
    \/ FmCancelCreate
    \/ FmSelectItem
    \/ FmOpenItem
    \/ FmRefreshView
    \/ FmClose
    \/ FsRemoved

SpecFm == Init /\ [][NextFm]_vars

\* ---------------------------------------------------------- shell steps

notView == <<browserVars, fetch, walk, pm, fm>>

OpenFileManager ==
    /\ current_view' = ViewAfter(current_view, "OpenFileManager")
    /\ UNCHANGED notView

OpenPackageManager ==
    /\ current_view' = ViewAfter(current_view, "OpenPackageManager")
    /\ UNCHANGED notView

OpenBrowser ==
    /\ current_view' = ViewAfter(current_view, "OpenBrowser")
    /\ UNCHANGED notView

\* CloseApp(_): the view it carries is ignored.
CloseApp ==
    /\ current_view' = ViewAfter(current_view, "CloseApp")
    /\ UNCHANGED notView

Tick ==
    /\ current_view' = ViewAfter(current_view, "Tick")
    /\ UNCHANGED notView

\* BrowserMessage(msg): every browser message, with one fetch in flight
\* fewer and one history entry fewer than the browser is checked with alone.
BrowserMessage ==
    /\ Next
    /\ Len(browser'.history) < MaxHistory
    /\ Len(pending') < MaxPending

\* PackageManagerMessage(msg), for the package manager's Close.
PackageManagerMessage == PmClose

\* FileManagerMessage(msg), for the file manager's Close and its dialog.
FileManagerMessage ==
    \/ FmClose
    \/ FmCreateFolder
    \/ FmCancelCreate

NextShell ==
    \/ OpenFileManager
    \/ OpenPackageManager
    \/ OpenBrowser
    \/ CloseApp
    \/ Tick
    \/ BrowserMessage
    \/ PackageManagerMessage
    \/ FileManagerMessage

SpecShell == Init /\ [][NextShell]_vars

\* ======================================================== properties

IsMsg(type) == last.msg.type = type

LastIndex(b) == Len(b.history) - 1

\* The completed fetch was not the most recently issued one.
StaleCompletion == IsMsg("LoadComplete") /\ ~last.msg.fetch.latest

\* The most recently issued fetch is still in flight.
LatestOutstanding == \E i \in 1..Len(pending) : pending[i].latest

\* C1: in every reachable state the history is non-empty and
\* 0 <= history_index < length of history.
HistoryIndexInBounds ==
    /\ Len(browser.history) >= 1
    /\ 0 <= browser.history_index
    /\ browser.history_index < Len(browser.history)

\* A Navigate from index 0 of a three-entry history: the forward entries
\* were dropped and the index is again within the (shorter) history.
HistoryIndexInBoundsWitness ==
    /\ IsMsg("Navigate")
    /\ Len(last.pre.history) = 3
    /\ last.pre.history_index = 0
    /\ Len(browser.history) = 2
    /\ browser.history_index = 1

\* C2: navigate(u) from history H at index i yields H[0..i] followed by the
\* normalized u, with index i+1; every entry after i is discarded and the URL
\* is appended even when it equals the current URL.
NavigateTruncatesAndAppends ==
    IsMsg("Navigate") =>
        /\ browser.history =
               Append(SubSeq(last.pre.history, 1, last.pre.history_index + 1),
                      Normalize(last.msg.url))
        /\ browser.history_index = last.pre.history_index + 1
        /\ browser.history_index = LastIndex(browser)

\* From [A, B, C], after go_back twice (index 0), navigate(D) has produced
\* [A, D] at index 1 while an earlier fetch is still unresolved; D is the URL
\* that was at position 1 before.
NavigateTruncatesAndAppendsWitness ==
    /\ IsMsg("Navigate")
    /\ last.msg.url = <<"a">>
    /\ last.pre.history = << HttpsPrefix \o <<"h">>,
                             HttpsPrefix \o <<"a">>,
                             HttpPrefix \o <<"a">> >>
    /\ last.pre.history_index = 0
    /\ browser.history = << HttpsPrefix \o <<"h">>, HttpsPrefix \o <<"a">> >>
    /\ browser.history_index = 1
    /\ Len(pending) = 2

\* C3: fencing: when the stored outcome is that of the most recently issued
\* fetch (request #2, for URL Y) and an earlier-issued fetch (request #1, for
\* another URL X) resolves afterwards, the status is not overwritten.
StaleResultDoesNotOverwrite ==
    (/\ StaleCompletion
     /\ last.preShown.set
     /\ last.preShown.latest
     /\ last.msg.fetch.url # last.preShown.url)
        => Status(browser) = Status(last.pre)

\* C4: most-recent-request-wins: whenever the status is Loaded or Errored, the
\* stored outcome is that of the most recently issued fetch, a fetch of the
\* URL at the current history index.
MostRecentRequestWins ==
    Status(browser).kind \in {"Loaded", "Errored"} =>
        /\ shown.set
        /\ shown.latest
        /\ shown.url = At(browser.history, browser.history_index)

\* C5: a completion of a fetch that is not the most recently issued one,
\* arriving while the most recently issued one is still in flight, leaves the
\* controller state unchanged; the status stays Loading.
StaleCompletionDiscarded ==
    (StaleCompletion /\ LatestOutstanding) =>
        /\ browser = last.pre
        /\ Status(browser).kind = "Loading"

\* C6: go_back at index 0 and go_forward at the last index change no component
\* of the controller state and issue no fetch.
BackForwardNoOpAtEnds ==
    /\ (IsMsg("GoBack") /\ last.pre.history_index = 0) =>
           (browser = last.pre /\ last.command = CommandNone)
    /\ (IsMsg("GoForward") /\ last.pre.history_index = LastIndex(last.pre)) =>
           (browser = last.pre /\ last.command = CommandNone)

\* go_back at index 0 of a history that has forward entries, with a page
\* shown and nothing in flight.
BackForwardNoOpAtEndsWitness ==
    /\ IsMsg("GoBack")
    /\ last.pre.history_index = 0
    /\ Len(last.pre.history) > 1
    /\ ~browser.loading
    /\ pending = <<>>

\* C7: go_back with index > 0 decrements the index by one and go_forward with
\* index < last increments it by one; each sets the status to Loading, issues
\* exactly one fetch for the URL stored at the new index and leaves the
\* history sequence unchanged.
BackForwardMoveByOne ==
    /\ (IsMsg("GoBack") /\ last.pre.history_index > 0) =>
           /\ browser.history_index = last.pre.history_index - 1
           /\ Status(browser).kind = "Loading"
           /\ last.command = <<At(last.pre.history, last.pre.history_index - 1)>>
           /\ browser.history = last.pre.history
    /\ (IsMsg("GoForward") /\ last.pre.history_index < LastIndex(last.pre)) =>
           /\ browser.history_index = last.pre.history_index + 1
           /\ Status(browser).kind = "Loading"
           /\ last.command = <<At(last.pre.history, last.pre.history_index + 1)>>
           /\ browser.history = last.pre.history

\* go_forward from index 0 to index 1 of a three-entry history (reached by
\* going back twice), fetching the second entry.
BackForwardMoveByOneWitness ==
    /\ IsMsg("GoForward")
    /\ last.pre.history_index = 0
    /\ Len(last.pre.history) = 3
    /\ browser.history_index = 1
    /\ last.command = <<last.pre.history[2]>>

\* C8: refresh sets the status to Loading and issues exactly one fetch for the
\* URL stored at the current history index, leaving history and index
\* unchanged.
RefreshRefetchesCurrent ==
    IsMsg("Refresh") =>
        /\ Status(browser).kind = "Loading"
        /\ last.command = <<At(last.pre.history, last.pre.history_index)>>
        /\ browser.history = last.pre.history
        /\ browser.history_index = last.pre.history_index

\* refresh as a retry: an error was shown for an entry that is neither the
\* first nor the last, and other text had been typed into the input box.
RefreshRefetchesCurrentWitness ==
    /\ IsMsg("Refresh")
    /\ Status(last.pre).kind = "Errored"
    /\ last.pre.history_index = 1
    /\ Len(last.pre.history) = 3
    /\ last.pre.url_input # last.pre.current_url
    /\ browser.loading

\* C9: complete(outcome) sets the status to Loaded(text) for a success and to
\* Errored(message) for a failure, and no other message takes the status out
\* of Loading.
CompleteSetsStatus ==
    /\ IsMsg("LoadComplete") =>
           Status(browser) =
               IF last.msg.result.ok
               THEN [kind |-> "Loaded", val |-> <<last.msg.result.val>>]
               ELSE [kind |-> "Errored", val |-> <<last.msg.result.val>>]
    /\ (Status(last.pre).kind = "Loading" /\ Status(browser).kind # "Loading")
           => IsMsg("LoadComplete")

\* A success outcome applied while the loading screen was up and an error of
\* an earlier fetch was still stored.
CompleteSetsStatusWitness ==
    /\ IsMsg("LoadComplete")
    /\ last.msg.result.ok
    /\ last.pre.loading
    /\ last.pre.error # None
    /\ Status(browser) = [kind |-> "Loaded", val |-> <<"T1">>]

\* C10: navigate(input) stores and fetches input unchanged when it begins
\* with http:// or https://, and https:// followed by input otherwise; the
\* same URL becomes the current URL, the input-box text, the appended history
\* entry and the fetch target.
NavigateNormalizes ==
    IsMsg("Navigate") =>
        LET input == last.msg.url
            url   == browser.current_url
        IN  /\ input = <<"a">> =>
                   url = <<"h", "t", "t", "p", "s", ":", "/", "/", "a">>
            /\ input = <<"h", "t", "t", "p", ":", "/", "/", "a">> => url = input
            /\ input = <<"h", "t", "t", "p", "s", ":", "/", "/", "a">> => url = input
            /\ (StartsWith(input, HttpPrefix) \/ StartsWith(input, HttpsPrefix))
                   => url = input
            /\ ~(StartsWith(input, HttpPrefix) \/ StartsWith(input, HttpsPrefix))
                   => url = HttpsPrefix \o input
            /\ browser.url_input = url
            /\ At(browser.history, browser.history_index) = url
            /\ last.command = <<url>>

\* navigate("http://a") has stored and fetched "http://a".
NavigateNormalizesWitness ==
    /\ IsMsg("Navigate")
    /\ last.msg.url = <<"h", "t", "t", "p", ":", "/", "/", "a">>
    /\ browser.current_url = <<"h", "t", "t", "p", ":", "/", "/", "a">>
    /\ last.command = << <<"h", "t", "t", "p", ":", "/", "/", "a">> >>

\* C11: the stored flags never encode two statuses at once: the loading flag
\* is never set while an error message of an earlier fetch is still stored.
FlagsEncodeOneStatus == ~(browser.loading /\ browser.error # None)

\* C12: the initial state has the configured home URL as the sole history
\* entry, index 0, current URL and input-box text equal to the home URL,
\* status Idle (not loading, no error) and no fetch outstanding.
InitialStateIsHome ==
    IsMsg("New") =>
        /\ browser.history = <<browser.config.homepage>>
        /\ browser.history_index = 0
        /\ browser.current_url = browser.config.homepage
        /\ browser.url_input = browser.config.homepage
        /\ Status(browser).kind = "Idle"
        /\ ~browser.loading
        /\ browser.error = None
        /\ pending = <<>>

\* The state right after construction, with the home URL https://h.
InitialStateIsHomeWitness ==
    /\ IsMsg("New")
    /\ browser.config.homepage = <<"h", "t", "t", "p", "s", ":", "/", "/", "h">>
    /\ browser.history = << <<"h", "t", "t", "p", "s", ":", "/", "/", "h">> >>
    /\ browser.content = WelcomeText

\* C13: the history sequence changes only on navigate and the index only on
\* navigate, go_back and go_forward; refresh, complete, input-box edits and
\* Close leave both unchanged.
HistoryMutatedOnlyByNavigation ==
    /\ browser.history # last.pre.history => IsMsg("Navigate")
    /\ browser.history_index # last.pre.history_index =>
           last.msg.type \in {"Navigate", "GoBack", "GoForward"}
    /\ last.msg.type \in {"Refresh", "LoadComplete", "UpdateUrl", "Close"} =>
           /\ browser.history = last.pre.history
           /\ browser.history_index = last.pre.history_index

\* A failed completion applied in the middle of a three-entry history.
HistoryMutatedOnlyByNavigationWitness ==
    /\ IsMsg("LoadComplete")
    /\ ~last.msg.result.ok
    /\ Len(browser.history) = 3
    /\ browser.history_index = 1
    /\ browser.history = last.pre.history

\* The message handled by a step is a navigation action: a navigate, a
\* refresh, or a go_back / go_forward that is not a no-op.
NavigationStep ==
    \/ last'.msg.type \in {"Navigate", "Refresh"}
    \/ last'.msg.type = "GoBack" /\ browser.history_index > 0
    \/ last'.msg.type = "GoForward" /\ browser.history_index < LastIndex(browser)

\* C14: every navigation action issues exactly one fetch and no other message
\* (input-box edit, complete, Close, a no-op go_back / go_forward) issues any:
\* the fetches in flight grow by one on each navigation action and by none
\* otherwise.
OneFetchPerNavigation ==
    [][ IF NavigationStep
        THEN /\ Len(last'.command) = 1
             /\ Len(pending') = Len(pending) + 1
        ELSE /\ last'.command = CommandNone
             /\ Len(pending') =
                    Len(pending) - (IF last'.msg.type = "LoadComplete" THEN 1 ELSE 0)
      ]_vars

\* An effective go_back issued its fetch while another fetch was in flight.
OneFetchPerNavigationWitness ==
    /\ IsMsg("GoBack")
    /\ last.pre.history_index > 0
    /\ Len(last.command) = 1
    /\ Len(pending) = 2
    /\ pending[2].url = last.command[1]

\* C16: no automatic retry: applying an outcome (a failure in particular)
\* issues no fetch, and a new fetch is issued only by a user command.
NoAutomaticRetry ==
    [][ /\ last'.msg.type = "LoadComplete" =>
               /\ last'.command = CommandNone
               /\ Len(pending') = Len(pending) - 1
        /\ Len(pending') > Len(pending) =>
               last'.msg.type \in {"Navigate", "GoBack", "GoForward", "Refresh"}
      ]_vars

\* A failure was applied, the error is shown and nothing is in flight.
NoAutomaticRetryWitness ==
    /\ IsMsg("LoadComplete")
    /\ ~last.msg.result.ok
    /\ Status(browser).kind = "Errored"
    /\ last.command = CommandNone
    /\ pending = <<>>

FailureIsRecoverable ==
    /\ (IsMsg("LoadComplete") /\ ~last.msg.result.ok) =>
           /\ Status(browser) = [kind |-> "Errored", val |-> <<last.msg.result.val>>]
           /\ browser.history = last.pre.history
           /\ browser.history_index = last.pre.history_index
    /\ Status(browser).kind = "Errored" =>
           /\ Refresh(browser).command = <<browser.current_url>>
           /\ \A u \in Inputs : Len(Navigate(browser, u).command) = 1
           /\ browser.history_index > 0 => Len(GoBack(browser).command) = 1
           /\ browser.history_index < LastIndex(browser) =>
                  Len(GoForward(browser).command) = 1
    /\ (IsMsg("Refresh") /\ Status(last.pre).kind = "Errored") =>
           /\ last.command = <<last.pre.current_url>>
           /\ browser.current_url = last.pre.current_url
           /\ browser.error = None
           /\ Status(browser).kind = "Loading"
    /\ (IsMsg("LoadComplete") /\ last.msg.result.ok) =>
           /\ Status(browser) = [kind |-> "Loaded", val |-> <<last.msg.result.val>>]
           /\ browser.error = None

\* The home page failed to load, was refreshed (no navigate ever happened: the
\* history has one entry) and the retry has loaded.
FailureIsRecoverableWitness ==
    /\ IsMsg("LoadComplete")
    /\ last.msg.result.ok
    /\ last.msg.fetch.url = browser.current_url
    /\ last.pre.loading
    /\ last.pre.content = ""
    /\ last.pre.error = None
    /\ Len(browser.history) = 1
    /\ Status(browser) = [kind |-> "Loaded", val |-> <<"T1">>]

\* C20: the UI loop never blocks on a fetch: commands handled while the status
\* is Loading (fetches in flight) take full effect on history, index, current
\* URL and input-box text.
CommandsTakeEffectWhileLoading ==
    last.pre.loading =>
        /\ IsMsg("Navigate") =>
               /\ browser.current_url = Normalize(last.msg.url)
               /\ browser.history =
                      Append(SubSeq(last.pre.history, 1, last.pre.history_index + 1),
                             browser.current_url)
               /\ browser.history_index = last.pre.history_index + 1
               /\ last.command = <<browser.current_url>>
        /\ (IsMsg("GoBack") /\ last.pre.history_index > 0) =>
               /\ browser.history_index = last.pre.history_index - 1
               /\ browser.current_url = At(browser.history, browser.history_index)
               /\ last.command = <<browser.current_url>>
        /\ (IsMsg("GoForward") /\ last.pre.history_index < LastIndex(last.pre)) =>
               /\ browser.history_index = last.pre.history_index + 1
               /\ browser.current_url = At(browser.history, browser.history_index)
               /\ last.command = <<browser.current_url>>
        /\ IsMsg("Refresh") => last.command = <<last.pre.current_url>>
        /\ IsMsg("UpdateUrl") => browser.url_input = last.msg.url

\* navigate handled while a fetch was in flight and the status was Loading:
\* the history grew and a second fetch is in flight.
CommandsTakeEffectWhileLoadingWitness ==
    /\ IsMsg("Navigate")
    /\ last.pre.loading
    /\ Len(browser.history) = Len(last.pre.history) + 1
    /\ Len(pending) = 2
    /\ pending[2].url = browser.current_url

\* C18: the outcome of fetch_page is decided by the first failing stage in the
\* order client construction, transport, status check, body read; on a
\* non-2xx status the body is never read and the extractor never runs; only
\* when all four stages succeed is the outcome Ok(extract(body)).
FirstFailingStageDecides ==
    LET sc == fetch.sc
        o  == fetch.outcome[1]
        is2xx == sc.status \in 200..299
    IN  /\ fetch.bodyRead =>
               sc.build_err = None /\ sc.send_err = None /\ is2xx
        /\ fetch.extractorRun => fetch.bodyRead /\ sc.text_err = None
        /\ fetch.pc = "done" =>
               IF sc.build_err # None
               THEN ~o.ok /\ o.val = ErrorMessage("Failed to create HTTP client: ",
                                                  None, sc.build_err[1])
               ELSE IF sc.send_err # None
               THEN ~o.ok /\ o.val = ErrorMessage("Failed to fetch page: ",
                                                  None, sc.send_err[1])
               ELSE IF ~is2xx
               THEN /\ ~o.ok
                    /\ o.val.prefix = "HTTP "
                    /\ o.val.code = <<sc.status>>
                    /\ o.val.text = unwrap_or(canonical_reason(sc.status),
                                              "Unknown error")
                    /\ ~fetch.bodyRead
                    /\ ~fetch.extractorRun
               ELSE IF sc.text_err # None
               THEN /\ ~o.ok
                    /\ o.val = ErrorMessage("Failed to read response: ",
                                            None, sc.text_err[1])
                    /\ ~fetch.extractorRun
               ELSE /\ o.ok
                    /\ o.val = extract_text_from_html(sc.body)
                    /\ fetch.extractorRun

\* A 404 whose body could not have been read either: the outcome is the
\* status error and the body was never touched.
FirstFailingStageDecidesWitness ==
    /\ fetch.pc = "done"
    /\ fetch.sc.build_err = None
    /\ fetch.sc.send_err = None
    /\ fetch.sc.status = 404
    /\ fetch.sc.text_err # None
    /\ ~fetch.outcome[1].ok
    /\ fetch.outcome[1].val = ErrorMessage("HTTP ", <<404>>, "Not Found")
    /\ ~fetch.bodyRead

\* C19: for a response whose transport and body read succeed, the outcome is
\* a success exactly when the status code is in 200..299; every other code
\* yields the HTTP status error carrying exactly that code.
SuccessIsAny2xx ==
    (/\ fetch.pc = "done"
     /\ fetch.sc.build_err = None
     /\ fetch.sc.send_err = None
     /\ fetch.sc.text_err = None) =>
        LET o == fetch.outcome[1]
        IN  /\ o.ok <=> fetch.sc.status \in 200..299
            /\ ~o.ok => /\ o.val.prefix = "HTTP "
                        /\ o.val.code = <<fetch.sc.status>>

\* Both edges of the range: a 299 has succeeded with the extracted text.
SuccessIsAny2xxWitness ==
    /\ fetch.pc = "done"
    /\ fetch.sc.status = 299
    /\ fetch.sc.body.src = "hello"
    /\ fetch.outcome[1].ok
    /\ fetch.outcome[1].val = <<"H", "e", "l", "l", "o">>

Flip(b) == [b EXCEPT !.config.minimal_mode = ~b.config.minimal_mode]

\* r2 is r1 up to the flag.
SameUpToFlag(r1, r2) ==
    /\ r2.command = r1.command
    /\ r2.browser = Flip(r1.browser)

\* C28: the minimal-mode flag does not influence the core: from two states
\* that differ only in the flag, every message leads to states that differ
\* only in the flag, with the same fetch issued and the same status.
MinimalModeDoesNotInfluenceCore ==
    LET other == Flip(browser)
    IN  /\ Status(other) = Status(browser)
        /\ IsMsg("New") =>
               Flip(browser) = New([browser.config EXCEPT
                                       !.minimal_mode = ~browser.config.minimal_mode])
        /\ \A url \in TypedTexts :
               SameUpToFlag(UpdateUrl(browser, url), UpdateUrl(other, url))
        /\ \A url \in Inputs :
               SameUpToFlag(Navigate(browser, url), Navigate(other, url))
        /\ SameUpToFlag(GoBack(browser), GoBack(other))
        /\ SameUpToFlag(GoForward(browser), GoForward(other))
        /\ SameUpToFlag(Refresh(browser), Refresh(other))
        /\ SameUpToFlag(Close(browser), Close(other))
        /\ \A result \in Results :
               SameUpToFlag(LoadComplete(browser, result),
                            LoadComplete(other, result))

\* With the flag off, a navigation has loaded its page as plain text.
MinimalModeDoesNotInfluenceCoreWitness ==
    /\ ~browser.config.minimal_mode
    /\ IsMsg("LoadComplete")
    /\ last.msg.result.ok
    /\ browser.content = "T1"
    /\ Len(browser.history) = 2
    /\ browser.history_index = 1
    /\ pending = <<>>

\* C29: in every reachable state the current URL is the history entry at the
\* current index, so refresh fetches, and the loading screen shows, the URL
\* at the current index.
CurrentUrlIsHistoryEntry ==
    /\ browser.current_url = At(browser.history, browser.history_index)
    /\ Refresh(browser).command =
           <<At(browser.history, browser.history_index)>>
    /\ Status(browser).kind = "Loading" =>
           Status(browser).val = At(browser.history, browser.history_index)

\* go_back to the middle entry of a three-entry history.
CurrentUrlIsHistoryEntryWitness ==
    /\ IsMsg("GoBack")
    /\ Len(browser.history) = 3
    /\ last.pre.history_index = 2
    /\ browser.history_index = 1
    /\ browser.current_url = browser.history[2]
    /\ browser.current_url # last.pre.current_url

RECURSIVE GoBackTimes(_, _)
GoBackTimes(b, n) ==
    IF n = 0 THEN b ELSE GoBackTimes(GoBack(b).browser, n - 1)

\* C30: the first history entry is the configured home URL in every
\* reachable state, so going back as often as the index allows ends at the
\* home URL.
FirstEntryIsHome ==
    /\ At(browser.history, 0) = browser.config.homepage
    /\ LET home == GoBackTimes(browser, browser.history_index)
       IN  /\ home.history_index = 0
           /\ home.current_url = browser.config.homepage

\* navigate from index 0 of a longer history: everything after the home
\* entry was cut and the home entry stayed.
FirstEntryIsHomeWitness ==
    /\ IsMsg("Navigate")
    /\ last.pre.history_index = 0
    /\ Len(last.pre.history) = 3
    /\ Len(browser.history) = 2
    /\ browser.history[1] = browser.config.homepage

\* The stepwise run and the operator compute the same text.
WalkAgrees ==
    walk.pc = "done" =>
        \E markup \in Bodies :
            /\ markup.src = walk.src
            /\ walk.result = <<extract_text_from_html(markup)>>
            /\ FramesNeeded(parse_document(markup)) <= StackLimit

\* ------------------------------------ the document tree, path by path

\* The positions of the tree: the child indices from the root to a node.
RECURSIVE Paths(_)
Paths(node) ==
    {<<>>} \cup UNION { { <<i>> \o p : p \in Paths(node.children[i]) } :
                          i \in 1..Len(node.children) }

RECURSIVE NodeAt(_, _)
NodeAt(node, p) ==
    IF p = <<>> THEN node ELSE NodeAt(node.children[Head(p)], Tail(p))

\* Is a proper ancestor of position p an element named script or style, in
\* any letter case?
UnderScriptOrStyle(root, p) ==
    \E k \in 0..(Len(p) - 1) :
        LET a == NodeAt(root, SubSeq(p, 1, k))
        IN  a.kind = "Element" /\ to_ascii_lowercase(a.name) \in {script, style}

WhitespaceOnly(contents) == \A i \in 1..Len(contents) : contents[i] \in WhiteSpace

TextPaths(root) == { p \in Paths(root) : NodeAt(root, p).kind = "Text" }

\* The positions of the text nodes that contribute to the output.
Contributing(root) ==
    { p \in TextPaths(root) :
          /\ ~UnderScriptOrStyle(root, p)
          /\ ~WhitespaceOnly(NodeAt(root, p).contents) }

\* Document order of two distinct positions.
Before(p, q) ==
    \E i \in 1..Len(q) :
        /\ i - 1 <= Len(p)
        /\ SubSeq(p, 1, i - 1) = SubSeq(q, 1, i - 1)
        /\ (Len(p) = i - 1 \/ p[i] < q[i])

\* The positions of S in document order.
RECURSIVE InOrder(_)
InOrder(S) ==
    IF S = {}
    THEN <<>>
    ELSE LET first == CHOOSE p \in S : \A q \in S \ {p} : Before(p, q)
         IN  <<first>> \o InOrder(S \ {first})

\* The contents at the positions ps, one newline after each.
RECURSIVE Lines(_, _)
Lines(root, ps) ==
    IF ps = <<>>
    THEN <<>>
    ELSE NodeAt(root, Head(ps)).contents \o <<"\n">> \o Lines(root, Tail(ps))

\* Does t occur in s?
Occurs(t, s) ==
    \E i \in 0..(Len(s) - Len(t)) : SubSeq(s, i + 1, i + Len(t)) = t

\* fetch_page has returned the text extracted from the body.
Extracted == fetch.pc = "done" /\ fetch.outcome[1].ok

\* C22: extract skips script and style elements entirely, whatever the
\* letter case of the tag: no text node below one contributes, every other
\* element is recursed into, and the hello page gives "Hello".
SkipsScriptAndStyle ==
    Extracted =>
        LET root == fetch.sc.body.dom
            out  == fetch.outcome[1].val
        IN  /\ \A p \in TextPaths(root) :
                   IF UnderScriptOrStyle(root, p)
                   THEN ~Occurs(NodeAt(root, p).contents, out)
                   ELSE WhitespaceOnly(NodeAt(root, p).contents)
                        \/ Occurs(Trim(NodeAt(root, p).contents), out)
            /\ fetch.sc.body.src = "hello" => out = <<"H", "e", "l", "l", "o">>

\* The page with upper-case SCRIPT and Style tags gives the text of its DIV
\* alone.
SkipsScriptAndStyleWitness ==
    /\ Extracted
    /\ fetch.sc.body.src = "upper"
    /\ fetch.outcome[1].val = <<"Z">>

\* C23: extract emits the contributing text nodes in document order, depth
\* first and left to right, one newline after each, the whole trimmed once;
\* document and other nodes emit nothing and their children are visited;
\* the two-div page gives "A\nB".
EmitsInDocumentOrder ==
    Extracted =>
        LET root == fetch.sc.body.dom
            out  == fetch.outcome[1].val
        IN  /\ out = Trim(Lines(root, InOrder(Contributing(root))))
            /\ fetch.sc.body.src = "divs" => out = <<"A", "\n", "B">>

\* The page with a comment, a style element and whitespace between two
\* texts: the texts come out in order, the inner whitespace kept.
EmitsInDocumentOrderWitness ==
    /\ Extracted
    /\ fetch.sc.body.src = "spaces"
    /\ fetch.outcome[1].val = <<"C", " ", "\n", "D">>

\* C25: extract returns the empty string when no text node contributes (no
\* text, whitespace-only text, text inside script or style only), as for the
\* empty input.
EmptyWhenNothingContributes ==
    Extracted =>
        /\ Contributing(fetch.sc.body.dom) = {} => fetch.outcome[1].val = <<>>
        /\ fetch.sc.body.src = "empty" => fetch.outcome[1].val = <<>>

\* The page whose only text is inside script and style gives "".
EmptyWhenNothingContributesWitness ==
    /\ Extracted
    /\ fetch.sc.body.src = "onlyscript"
    /\ TextPaths(fetch.sc.body.dom) # {}
    /\ fetch.outcome[1].val = <<>>

\* C24: a text node outside script and style contributes nothing when it is
\* whitespace only, and otherwise its raw contents, its own leading and
\* trailing whitespace included, followed by one newline.
TextNodeContribution ==
    (walk.pc = "return" /\ walk.visited.kind = "Text") =>
        IF WhitespaceOnly(walk.visited.contents)
        THEN walk.output = walk.before
        ELSE walk.output = walk.before \o walk.visited.contents \o <<"\n">>

\* The text " C " has been appended, spaces and all, to an empty buffer that
\* the whitespace-only text before it left empty.
TextNodeContributionWitness ==
    /\ walk.pc = "return"
    /\ walk.visited.kind = "Text"
    /\ walk.visited.contents = <<" ", "C", " ">>
    /\ walk.before = <<>>
    /\ walk.output = <<" ", "C", " ", "\n">>

\* C26: extract is total: on every document the traversal returns; it never
\* ends in an error.
ExtractIsTotal == walk.pc # "overflow"

\* C27: the call-stack depth of the traversal does not depend on the nesting
\* of the tree: it never exceeds the depth used on the flattest document,
\* the one of the empty input.
CallDepthIndependentOfNesting ==
    Len(walk.stack) <= FramesNeeded(Page(<<>>))

\* C31: whenever an error message is stored the stored page text is empty: a
\* failure clears the text of the page loaded before, and page text is only
\* ever stored together with clearing the error.
ErrorMeansNoText ==
    /\ browser.error # None => browser.content = ""
    /\ (IsMsg("LoadComplete") /\ ~last.msg.result.ok) => browser.content = ""
    /\ browser.content # last.pre.content =>
           (browser.content = "" \/ browser.error = None)

\* A failure arrives while the text of an earlier page is stored.
ErrorMeansNoTextWitness ==
    /\ IsMsg("LoadComplete")
    /\ ~last.msg.result.ok
    /\ last.pre.content = "T1"
    /\ browser.error = <<"E1">>
    /\ browser.content = ""

\* C32: UpdateUrl changes the input-box text and nothing else and issues no
\* fetch; every navigate and every effective go_back / go_forward overwrites
\* the input-box text with the URL it fetches.
UpdateUrlChangesInputOnly ==
    /\ IsMsg("UpdateUrl") =>
           /\ browser = [last.pre EXCEPT !.url_input = last.msg.url]
           /\ last.command = CommandNone
    /\ (IsMsg("Navigate") \/ IsMsg("GoBack") \/ IsMsg("GoForward")) =>
           (last.command # CommandNone => browser.url_input = last.command[1])

\* Text typed over the URL a go_back had put in the input box, while that
\* fetch is in flight.
UpdateUrlChangesInputOnlyWitness ==
    /\ IsMsg("UpdateUrl")
    /\ last.pre.url_input = last.pre.current_url
    /\ last.pre.history_index < LastIndex(last.pre)
    /\ last.pre.loading
    /\ browser.url_input = <<"a">>
    /\ browser.current_url = last.pre.current_url

\* C33: URL normalization is idempotent: a normalized URL is returned
\* unchanged, so submitting the input-box text a navigate left behind
\* fetches the same URL again.
NormalizeIsIdempotent ==
    /\ \A u \in Inputs \cup {browser.url_input} :
           Normalize(Normalize(u)) = Normalize(u)
    /\ IsMsg("Navigate") =>
           /\ browser.url_input = browser.current_url
           /\ Normalize(browser.url_input) = browser.url_input
           /\ Navigate(browser, browser.url_input).command =
                  <<browser.current_url>>

\* The text a navigate to "a" left in the input box, https://a, has been
\* submitted as it stood, and https://a was fetched again.
NormalizeIsIdempotentWitness ==
    /\ IsMsg("Navigate")
    /\ last.msg.url = last.pre.url_input
    /\ last.pre.url_input = HttpsPrefix \o <<"a">>
    /\ last.pre.history_index > 0
    /\ last.command = <<last.pre.url_input>>

\* A search is in flight.
SearchOutstanding ==
    \E i \in 1..Len(pm.inflight) : pm.inflight[i].kind = "search"

\* C35: package search results are applied most-recent-wins: the result of
\* an earlier-issued search never replaces the list of a later-issued one,
\* and when no search is outstanding (and none has failed) the list shown is
\* the result for the current query, empty when the query is empty.
SearchResultsMostRecentWins ==
    /\ (pm.last.type = "SearchResults" /\ pm.last.op.overtaken) =>
           pm.app.packages = pm.last.pre.packages
    /\ (~SearchOutstanding /\ pm.app.error = None) =>
           /\ pm.listed = pm.app.search_query
           /\ pm.app.search_query = "" => pm.app.packages = <<>>

\* C36: the loading flag of the package manager is true exactly while at
\* least one search, install, remove or cache update is outstanding.
LoadingIffOperationOutstanding ==
    pm.app.loading <=> pm.inflight # <<>>

\* C37: in the file manager the selection always refers to a listed entry:
\* selected_index is None or less than the number of listed items.
SelectionIsListed ==
    fm.app.selected_index # None =>
        fm.app.selected_index[1] < Len(fm.app.items)

\* C38: the creation dialog: ConfirmCreate with an empty name changes
\* nothing; a failed creation keeps the create mode and the typed name and
\* stores an error message; a successful one returns the mode to None,
\* clears name and error and reloads the listing; CancelCreate returns to
\* None with name and error cleared.
CreateDialogContract ==
    [][ /\ FmConfirmCreate =>
               LET a        == fm.app
                   new_path == join(a.current_path, a.new_item_name)
               IN  IF a.new_item_name = <<>>
                   THEN fm' = fm
                   ELSE IF CreateError(fm.fs, a.create_mode, new_path) # None
                   THEN /\ fm'.app.create_mode = a.create_mode
                        /\ fm'.app.new_item_name = a.new_item_name
                        /\ fm'.app.error_message # None
                        /\ fm'.app.items = a.items
                        /\ fm'.fs = fm.fs
                   ELSE /\ fm'.app.create_mode = "None"
                        /\ fm'.app.new_item_name = <<>>
                        /\ fm'.app.error_message = None
                        /\ exists(fm'.fs, new_path)
                        /\ fm'.app.items =
                               load_directory(a, fm'.fs, a.current_path).items
        /\ FmCancelCreate =>
               /\ fm'.app.create_mode = "None"
               /\ fm'.app.new_item_name = <<>>
               /\ fm'.app.error_message = None
      ]_vars

\* Creating the folder C where C exists has failed: the dialog is still
\* open with the name typed, and the error is stored.
CreateDialogContractWitness ==
    /\ fm.app.create_mode = "Folder"
    /\ fm.app.new_item_name = <<"C">>
    /\ fm.app.error_message = <<<<"Error: ", "File exists">>>>
    /\ exists(fm.fs, join(fm.app.current_path, <<"C">>))

\* C34: the current view changes only on OpenFileManager,
\* OpenPackageManager, OpenBrowser and CloseApp; messages forwarded to a
\* sub-application, its Close included, and Tick leave it unchanged; a
\* browser LoadComplete is applied whichever view is displayed, and the
\* browser state persists across view switches.
ViewChangesOnlyOnShellMessages ==
    [][ /\ current_view' # current_view =>
               /\ \/ OpenFileManager
                  \/ OpenPackageManager
                  \/ OpenBrowser
                  \/ CloseApp
               /\ browser' = browser
               /\ pending' = pending
        /\ (BrowserMessage \/ PackageManagerMessage \/ FileManagerMessage \/ Tick)
               => current_view' = current_view
        /\ (last' # last /\ last'.msg.type = "LoadComplete") =>
               browser' = LoadComplete(browser, last'.msg.result).browser
      ]_vars

\* A page has loaded while the file manager was displayed, into a history
\* built while the browser was displayed.
ViewChangesOnlyOnShellMessagesWitness ==
    /\ IsMsg("LoadComplete")
    /\ last.view = "FileManager"
    /\ current_view = "FileManager"
    /\ last.msg.result.ok
    /\ browser.content = "T1"
    /\ browser.history_index = 1

====
